---- MODULE Spec2Model ----
(***************************************************************************)
(* Model of api/recommend.js: the module-level embedding cache with its    *)
(* shared lastFetch stamp (fetchItems) and the request handler that        *)
(* authenticates, validates the type, reads the preferences, resolves the  *)
(* candidate pool through the cache, embeds a prompt and ranks.            *)
(*                                                                         *)
(* Node runs the handlers on one thread: a handler runs without            *)
(* interruption from one await to the next, so every action below is the   *)
(* code between two awaits of one request.  Requests interleave only at    *)
(* the awaits: verifyIdToken, the preference read, the RTDB read of        *)
(* fetchItems and the embeddings call.                                     *)
(***************************************************************************)
EXTENDS Integers, Sequences, FiniteSets, TLC

\* ------------------------------------------------------------------ bounds
\* Number of request slots that can be in flight together (a finished slot
\* is taken again by a new request).
MaxReqs == 2
\* Number of times the clock advances.
MaxTicks == 2

\* Longest snapshot whose embeddings all have the query's dimension, and
\* longest snapshot that mixes dimensions (ranking specification).
MaxPool == 6
MaxMixed == 3

\* --------------------------------------------------------------- constants
\* const CACHE_TTL = 5 * 60 * 1000
CACHE_TTL == 5 * 60 * 1000
\* .slice(0, 5)
TopK == 5

\* Date.now() when the process starts: lastFetch starts at 0 and the epoch
\* clock is far more than CACHE_TTL beyond it.
Epoch == 2 * CACHE_TTL
\* The clock advances by one millisecond or by one millisecond less than
\* the TTL: the ages just below, at and just above CACHE_TTL all occur.
TickSteps == {1, CACHE_TTL - 1}

Reqs == 1..MaxReqs
\* ['pets', 'articles']
Types == {"pets", "articles"}
\* values of req.query.type the transport can deliver
QueryTypes == Types \cup {"fish"}
Methods == {"GET", "POST"}

\* ------------------------------------------------------------- environment
\* Children of an RTDB snapshot: key and value; a value may lack the
\* embedding array.
ChildA == [key |-> "a", val |-> [embedding |-> <<1, 0>>]]
ChildB == [key |-> "b", val |-> [embedding |-> <<0, 1>>]]
ChildC == [key |-> "c", val |-> [name |-> "no embedding"]]
Snapshots == { <<>>, <<ChildA, ChildC, ChildB>> }

\* prefSnap.val(): null, or the stored preference object (here one with
\* a list for pets and none for articles)
Null == [null |-> TRUE]
PrefVals == { [pets |-> <<"dog", "cat">>] }

\* embRes.data[0].embedding
QueryVecs == { <<1, 0>>, <<0, 1>> }

\* ------------------------------------------------------------------- cache
\* let cache = { itemsByType: {}, lastFetch: 0 }
EmptyCache == [itemsByType |-> <<>>, lastFetch |-> 0]

\* cache.itemsByType[type]: an array (truthy even when empty) or undefined
HasItems(c, type) == type \in DOMAIN c.itemsByType

\* Variants of the freshness test and of the cache replacement that the
\* properties below must tell apart from the code's.
IsFreshAtTtl(c, type, t) == HasItems(c, type) /\ (t - c.lastFetch) <= CACHE_TTL

IsFreshNoTtl(c, type, t) == HasItems(c, type)

\* if (cache.itemsByType[type] && (now - cache.lastFetch) < CACHE_TTL)
IsFresh(c, type, t) == HasItems(c, type) /\ (t - c.lastFetch) < CACHE_TTL

\* snap.forEach(child => { if (Array.isArray(d.embedding)) arr.push(...) })
HasEmbedding(child) == "embedding" \in DOMAIN child.val

ToItem(child) == [id |-> child.key, embedding |-> child.val.embedding]

RECURSIVE CollectItems(_)
CollectItems(snap) ==
    IF snap = <<>> THEN <<>>
    ELSE IF HasEmbedding(Head(snap))
         THEN <<ToItem(Head(snap))>> \o CollectItems(Tail(snap))
         ELSE CollectItems(Tail(snap))

MergeCacheDropOthers(c, type, arr, t) ==
    [itemsByType |-> [k \in {type} |-> arr], lastFetch |-> t]

MergeCacheNoStamp(c, type, arr, t) ==
    [itemsByType |->
        [k \in DOMAIN c.itemsByType \cup {type} |->
            IF k = type THEN arr ELSE c.itemsByType[k]],
     lastFetch |-> c.lastFetch]

MergeCacheOldWins(c, type, arr, t) ==
    [itemsByType |->
        [k \in DOMAIN c.itemsByType \cup {type} |->
            IF k \in DOMAIN c.itemsByType THEN c.itemsByType[k] ELSE arr],
     lastFetch |-> t]

\* cache = { itemsByType: { ...cache.itemsByType, [type]: arr }, lastFetch: now }
MergeCache(c, type, arr, t) ==
    [itemsByType |->
        [k \in DOMAIN c.itemsByType \cup {type} |->
            IF k = type THEN arr ELSE c.itemsByType[k]],
     lastFetch |-> t]

\* ----------------------------------------------------------------- handler
\* if (req.method !== 'GET')
MethodOk(method) == method = "GET"

ValidTypeAny(type) == TRUE

\* if (!['pets', 'articles'].includes(type))
ValidType(type) == type \in Types

\* const userPrefs = prefSnap.val() || {}
UserPrefs(val) == IF val = Null THEN [none |-> TRUE] ELSE val

\* Array.isArray(userPrefs[f]) && userPrefs[f].length
HasPrefs(userPrefs, f) == f \in DOMAIN userPrefs /\ Len(userPrefs[f]) > 0

\* let prompt = `Recommend me 5 ${type}`; prompt += ` (species: ...)` or
\* ` (topics: ...)` for the requested type's non-empty list only
BuildPrompt(type, userPrefs) ==
    <<"Recommend me 5", type>> \o
    (IF type = "pets" /\ HasPrefs(userPrefs, "pets")
     THEN <<"species">> \o userPrefs.pets ELSE <<>>) \o
    (IF type = "articles" /\ HasPrefs(userPrefs, "articles")
     THEN <<"topics">> \o userPrefs.articles ELSE <<>>)

\* ----------------------------------------------------------------- ranking
RECURSIVE SumTo(_, _, _)
\* sum over i = 1..n of a[i] * b[i]
SumTo(a, b, n) == IF n = 0 THEN 0 ELSE a[n] * b[n] + SumTo(a, b, n - 1)

\* The score dot / (Math.sqrt(magA) * Math.sqrt(magB) || 1e-12), kept exact:
\* num / sqrt(den2), and num / 1e-12 when den2 = 0.  The loop runs over
\* a.length: a shorter b reads undefined and every sum becomes NaN; a
\* longer b is read on its first a.length components only.
Cosine(a, b) ==
    IF Len(b) < Len(a)
    THEN [nan |-> TRUE, num |-> 0, den2 |-> 0]
    ELSE [nan |-> FALSE,
          num |-> SumTo(a, b, Len(a)),
          den2 |-> SumTo(a, a, Len(a)) * SumTo(b, b, Len(a))]

\* s > t for two scores that are numbers
ScoreGreater(s, t) ==
    LET sd == IF s.den2 = 0 THEN 1 ELSE s.den2
        td == IF t.den2 = 0 THEN 1 ELSE t.den2
    IN  IF s.num >= 0 /\ t.num < 0 THEN TRUE
        ELSE IF s.num < 0 /\ t.num >= 0 THEN FALSE
        ELSE IF s.num >= 0 THEN s.num * s.num * td > t.num * t.num * sd
        ELSE s.num * s.num * td < t.num * t.num * sd

\* items.map(item => ({ id: item.id, score: cosine(qEmb, item.embedding) }))
Scored(qEmb, pool) ==
    [i \in 1..Len(pool) |->
        [id |-> pool[i].id, score |-> Cosine(qEmb, pool[i].embedding)]]

RECURSIVE InsertDesc(_, _)
\* x goes before the first element it strictly beats (b.score - a.score < 0)
InsertDesc(x, sorted) ==
    IF sorted = <<>> THEN <<x>>
    ELSE IF ScoreGreater(x.score, Head(sorted).score)
         THEN <<x>> \o sorted
         ELSE <<Head(sorted)>> \o InsertDesc(x, Tail(sorted))

RECURSIVE StableSortDesc(_)
\* Array.prototype.sort is stable; the comparator is (a, b) => b.score - a.score
StableSortDesc(xs) ==
    IF xs = <<>> THEN <<>>
    ELSE InsertDesc(xs[Len(xs)], StableSortDesc(SubSeq(xs, 1, Len(xs) - 1)))

HasNaN(xs) == \E i \in 1..Len(xs) : xs[i].score.nan

RECURSIVE Orders(_)
\* every arrangement of the positions in S
Orders(S) ==
    IF S = {} THEN { <<>> }
    ELSE UNION { { <<i>> \o p : p \in Orders(S \ {i}) } : i \in S }

Perms(xs) == { [i \in 1..Len(xs) |-> xs[p[i]]] : p \in Orders(1..Len(xs)) }

\* The orders .sort can produce.  With a NaN score the comparator returns
\* NaN and is not a consistent comparator: the order is then
\* implementation-defined, any permutation.
SortOutcomes(xs) == IF HasNaN(xs) THEN Perms(xs) ELSE { StableSortDesc(xs) }

\* .slice(0, 5).map(x => x.id)
TopIds(sorted) ==
    LET n == IF Len(sorted) < TopK THEN Len(sorted) ELSE TopK
    IN  [i \in 1..n |-> sorted[i].id]

\* the recommendation lists the ranking step can return
Recommendations(qEmb, pool) ==
    { TopIds(s) : s \in SortOutcomes(Scored(qEmb, pool)) }

\* ------------------------------------------------------------------- state
VARIABLES
    cache,      \* the module-level cache object
    clock,      \* Date.now()
    pc,         \* per request slot: the await the handler is suspended at
    type,       \* per request: req.query.type
    now,        \* per request: fetchItems' const now, while its read is pending
    userPrefs,  \* per request: the preferences read in step 5
    items,      \* per request: the pool fetchItems returned
    prompt,     \* per request: the prompt sent to the embedder
    calls,      \* per request: the external calls it has issued, in order
    loaded,     \* per request: the snapshot its RTDB read delivered
    overtaken,  \* per request: another request replaced the cache while its
                \* own read was pending
    out,        \* the response sent last, with the calls of its request and,
                \* for a 200, the pool and the query vector it was ranked from
    loadStamp,  \* per key: the now of the get that wrote its stored pool
    loadPool,   \* per key: the pool the most recent load of the key returned
    lastKey     \* the key of the most recent cache write

vars == <<cache, clock, pc, type, now, userPrefs, items, prompt, calls,
          loaded, overtaken, out, loadStamp, loadPool, lastKey>>

NoTime == 0 - 1
NoPrefs == [none |-> TRUE]
NoOut == [status |-> 0]

\* number of clock advances so far (TickSteps are 1 and CACHE_TTL - 1)
Ticks == ((clock - Epoch) \div (CACHE_TTL - 1)) + ((clock - Epoch) % (CACHE_TTL - 1))

Init ==
    /\ cache = EmptyCache
    /\ clock = Epoch
    /\ pc = [r \in Reqs |-> "idle"]
    /\ type = [r \in Reqs |-> "none"]
    /\ now = [r \in Reqs |-> NoTime]
    /\ userPrefs = [r \in Reqs |-> NoPrefs]
    /\ items = [r \in Reqs |-> <<>>]
    /\ prompt = [r \in Reqs |-> <<>>]
    /\ calls = [r \in Reqs |-> <<>>]
    /\ loaded = [r \in Reqs |-> <<>>]
    /\ overtaken = [r \in Reqs |-> FALSE]
    /\ out = NoOut
    /\ loadStamp = [k \in Types |-> NoTime]
    /\ loadPool = [k \in Types |-> <<>>]
    /\ lastKey = "none"

\* The handler returns: its locals are gone and its slot is free for the
\* next request.
Release(r) ==
    /\ pc' = [pc EXCEPT ![r] = "idle"]
    /\ type' = [type EXCEPT ![r] = "none"]
    /\ now' = [now EXCEPT ![r] = NoTime]
    /\ userPrefs' = [userPrefs EXCEPT ![r] = NoPrefs]
    /\ items' = [items EXCEPT ![r] = <<>>]
    /\ prompt' = [prompt EXCEPT ![r] = <<>>]
    /\ calls' = [calls EXCEPT ![r] = <<>>]
    /\ loaded' = [loaded EXCEPT ![r] = <<>>]
    /\ overtaken' = [overtaken EXCEPT ![r] = FALSE]

\* return res.status(s).json(body)
Respond(r, s, body, cs) ==
    /\ out' = [status |-> s, body |-> body, calls |-> cs]
    /\ Release(r)

\* Time passes while requests are suspended or none is running.
Tick(d) ==
    /\ Ticks < MaxTicks
    /\ clock' = clock + d
    /\ UNCHANGED <<cache, pc, type, now, userPrefs, items, prompt, calls,
                   loaded, overtaken, out, loadStamp, loadPool, lastKey>>

\* handler(req, res) up to its first await: method check, bearer header,
\* then the call of verifyIdToken.
HandlerStart(r, method, auth, t) ==
    /\ pc[r] = "idle"
    /\ IF ~MethodOk(method)
       THEN Respond(r, 405, "Method Not Allowed", <<>>)
       ELSE IF ~auth
       THEN Respond(r, 401, "Missing Bearer token", <<>>)
       ELSE /\ pc' = [pc EXCEPT ![r] = "verify"]
            /\ type' = [type EXCEPT ![r] = t]
            /\ calls' = [calls EXCEPT ![r] = <<"verifyIdToken">>]
            /\ UNCHANGED <<now, userPrefs, items, prompt, loaded, overtaken, out>>
    /\ UNCHANGED <<cache, clock, loadStamp, loadPool, lastKey>>

\* verifyIdToken rejects: the catch of step 3 answers 401.
VerifyFail(r) ==
    /\ pc[r] = "verify"
    /\ Respond(r, 401, "Invalid or expired token", calls[r])
    /\ UNCHANGED <<cache, clock, loadStamp, loadPool, lastKey>>

\* A variant in which the resolved token check moves on without issuing the
\* preference read.
VerifyOkNoRead(r) ==
    /\ pc[r] = "verify"
    /\ IF ~ValidType(type[r])
       THEN Respond(r, 400, "Invalid type", calls[r])
       ELSE /\ pc' = [pc EXCEPT ![r] = "prefs"]
            /\ UNCHANGED <<type, now, userPrefs, items, prompt, calls, loaded,
                           overtaken, out>>
    /\ UNCHANGED <<cache, clock, loadStamp, loadPool, lastKey>>

\* verifyIdToken resolves: the type is validated, then the preference read
\* is issued.
VerifyOk(r) ==
    /\ pc[r] = "verify"
    /\ IF ~ValidType(type[r])
       THEN Respond(r, 400, "Invalid type", calls[r])
       ELSE /\ pc' = [pc EXCEPT ![r] = "prefs"]
            /\ calls' = [calls EXCEPT ![r] = Append(@, "preferences")]
            /\ UNCHANGED <<type, now, userPrefs, items, prompt, loaded,
                           overtaken, out>>
    /\ UNCHANGED <<cache, clock, loadStamp, loadPool, lastKey>>

\* The preference read rejects: the handler's catch answers 500.
PrefsFail(r) ==
    /\ pc[r] = "prefs"
    /\ Respond(r, 500, "Internal server error", calls[r])
    /\ UNCHANGED <<cache, clock, loadStamp, loadPool, lastKey>>

\* The preference read resolves and fetchItems(type) is called.  On a hit
\* it returns the stored pool, the prompt is built and the embedder is
\* called; on a miss the RTDB read of the type is issued.
PrefsOk(r, val) ==
    /\ pc[r] = "prefs"
    /\ IF IsFresh(cache, type[r], clock)
       THEN /\ items' = [items EXCEPT ![r] = cache.itemsByType[type[r]]]
            /\ prompt' = [prompt EXCEPT ![r] = BuildPrompt(type[r], UserPrefs(val))]
            /\ calls' = [calls EXCEPT ![r] = Append(@, "embeddings")]
            /\ pc' = [pc EXCEPT ![r] = "embed"]
            /\ UNCHANGED <<now, userPrefs>>
       ELSE /\ now' = [now EXCEPT ![r] = clock]
            /\ userPrefs' = [userPrefs EXCEPT ![r] = UserPrefs(val)]
            /\ calls' = [calls EXCEPT ![r] = Append(@, "load")]
            /\ pc' = [pc EXCEPT ![r] = "load"]
            /\ UNCHANGED <<items, prompt>>
    /\ UNCHANGED <<cache, clock, type, loaded, overtaken, out, loadStamp,
                   loadPool, lastKey>>

\* The RTDB read resolves with a snapshot: the records with an embedding are
\* collected, the cache object is replaced, fetchItems returns the array;
\* then the prompt is built and the embedder is called.
LoadOk(r, snap) ==
    /\ pc[r] = "load"
    /\ cache' = MergeCache(cache, type[r], CollectItems(snap), now[r])
    /\ items' = [items EXCEPT ![r] = CollectItems(snap)]
    /\ loaded' = [loaded EXCEPT ![r] = snap]
    /\ prompt' = [prompt EXCEPT ![r] = BuildPrompt(type[r], userPrefs[r])]
    /\ userPrefs' = [userPrefs EXCEPT ![r] = NoPrefs]
    /\ now' = [now EXCEPT ![r] = NoTime]
    /\ calls' = [calls EXCEPT ![r] = Append(@, "embeddings")]
    /\ pc' = [pc EXCEPT ![r] = "embed"]
    /\ overtaken' = [q \in Reqs |-> IF q # r /\ pc[q] = "load" THEN TRUE
                                                             ELSE overtaken[q]]
    /\ loadStamp' = [loadStamp EXCEPT ![type[r]] = now[r]]
    /\ loadPool' = [loadPool EXCEPT ![type[r]] = CollectItems(snap)]
    /\ lastKey' = type[r]
    /\ UNCHANGED <<clock, type, out>>

\* A variant of the failing read that stores an empty pool for the key.
LoadFailPoison(r) ==
    /\ pc[r] = "load"
    /\ Respond(r, 500, "Internal server error", calls[r])
    /\ cache' = MergeCache(cache, type[r], <<>>, now[r])
    /\ UNCHANGED <<clock, loadStamp, loadPool, lastKey>>

\* A variant of the failing read that answers with an empty list.
LoadFailEmptyList(r) ==
    /\ pc[r] = "load"
    /\ Respond(r, 200, <<>>, calls[r])
    /\ UNCHANGED <<cache, clock, loadStamp, loadPool, lastKey>>

\* A variant of the failing read that goes on to the embedder with an empty
\* pool.
LoadFailContinues(r) ==
    /\ pc[r] = "load"
    /\ items' = [items EXCEPT ![r] = <<>>]
    /\ prompt' = [prompt EXCEPT ![r] = BuildPrompt(type[r], userPrefs[r])]
    /\ userPrefs' = [userPrefs EXCEPT ![r] = NoPrefs]
    /\ now' = [now EXCEPT ![r] = NoTime]
    /\ calls' = [calls EXCEPT ![r] = Append(@, "embeddings")]
    /\ pc' = [pc EXCEPT ![r] = "embed"]
    /\ UNCHANGED <<cache, clock, type, loaded, overtaken, out, loadStamp,
                   loadPool, lastKey>>

\* The RTDB read rejects: fetchItems throws before it touches the cache and
\* the handler's catch answers 500.
LoadFail(r) ==
    /\ pc[r] = "load"
    /\ Respond(r, 500, "Internal server error", calls[r])
    /\ UNCHANGED <<cache, clock, loadStamp, loadPool, lastKey>>

\* The embedder rejects: the handler's catch answers 500.
EmbedFail(r) ==
    /\ pc[r] = "embed"
    /\ Respond(r, 500, "Internal server error", calls[r])
    /\ UNCHANGED <<cache, clock, loadStamp, loadPool, lastKey>>

\* A variant that ranks the pool the cache holds for the type when the
\* embedder resolves, instead of the pool fetchItems returned.
EmbedOkRereadsCache(r, qEmb) ==
    /\ pc[r] = "embed"
    /\ \E recs \in Recommendations(qEmb, cache.itemsByType[type[r]]) :
          out' = [status |-> 200, body |-> recs, calls |-> calls[r],
                  ranked |-> [pool |-> cache.itemsByType[type[r]],
                              query |-> qEmb]]
    /\ Release(r)
    /\ UNCHANGED <<cache, clock, loadStamp, loadPool, lastKey>>

\* The embedder resolves with the query vector: the pool is scored, sorted,
\* cut to five and answered with 200.
EmbedOk(r, qEmb) ==
    /\ pc[r] = "embed"
    /\ \E recs \in Recommendations(qEmb, items[r]) :
          out' = [status |-> 200, body |-> recs, calls |-> calls[r],
                  ranked |-> [pool |-> items[r], query |-> qEmb]]
    /\ Release(r)
    /\ UNCHANGED <<cache, clock, loadStamp, loadPool, lastKey>>

Next ==
    \/ \E d \in TickSteps : Tick(d)
    \/ \E r \in Reqs, m \in Methods, a \in BOOLEAN, t \in QueryTypes :
          HandlerStart(r, m, a, t)
    \/ \E r \in Reqs : VerifyFail(r)
    \/ \E r \in Reqs : VerifyOk(r)
    \/ \E r \in Reqs : PrefsFail(r)
    \/ \E r \in Reqs, v \in PrefVals : PrefsOk(r, v)
    \/ \E r \in Reqs, s \in Snapshots : LoadOk(r, s)
    \/ \E r \in Reqs : LoadFail(r)
    \/ \E r \in Reqs : EmbedFail(r)
    \/ \E r \in Reqs, q \in QueryVecs : EmbedOk(r, q)

Spec == Init /\ [][Next]_vars

\* ------------------------------------------------ ranking specification
\* One request on the empty cache, followed from its start to its answer,
\* with the RTDB holding larger and less regular sets of records: more than
\* five candidates, equal embeddings under different keys, and embeddings
\* shorter or longer than the query vector.
RankKeys == <<"a", "b", "c", "d", "e", "f", "g", "h">>

SameDim == { <<1, 0>>, <<0, 1>> }
OtherDim == { <<1>>, <<1, 0, 1>> }

RankChild(i, e) == [key |-> RankKeys[i], val |-> [embedding |-> e]]

RankSnapshots ==
    UNION { { [i \in 1..n |-> RankChild(i, f[i])] : f \in [1..n -> SameDim] }
              : n \in 0..MaxPool }
    \cup
    UNION { { [i \in 1..n |-> RankChild(i, f[i])] :
                  f \in [1..n -> SameDim \cup OtherDim] } : n \in 0..MaxMixed }

RankStart == out = NoOut /\ HandlerStart(1, "GET", TRUE, "pets")

NextRank ==
    \/ RankStart
    \/ VerifyOk(1)
    \/ \E v \in PrefVals : PrefsOk(1, v)
    \/ \E s \in RankSnapshots : LoadOk(1, s)
    \/ \E q \in QueryVecs : EmbedOk(1, q)

SpecRank == Init /\ [][NextRank]_vars

\* ================================================================== claims
\* request r calls fetchItems in this step (the preference read resolved)
GetStep(r) == pc[r] = "prefs" /\ pc'[r] \in {"load", "embed"}

\* the get of this step is answered from the cache / issues the RTDB read
HitStep(r) == GetStep(r) /\ pc'[r] = "embed" /\ calls'[r] = Append(calls[r], "embeddings")

MissStep(r) == GetStep(r) /\ pc'[r] = "load" /\ calls'[r] = Append(calls[r], "load")

\* request r's successful load writes the cache in this step
WriteStep(r) == pc[r] = "load" /\ pc'[r] = "embed"

\* request r is past fetchItems, which answered it from the cache / by a load
WasHit(r) == pc[r] = "embed" /\ calls[r] = <<"verifyIdToken", "preferences", "embeddings">>

WasMiss(r) ==
    pc[r] = "embed" /\ calls[r] = <<"verifyIdToken", "preferences", "load", "embeddings">>

\* C1: a get for K is served from the cache, without the loader, if and only
\* if K is present in pools and now - lastFetch < TTL; in every other case
\* (K absent, or now - lastFetch >= TTL) the loader is invoked for K.
C1_HitIffPresentAndWithinTtl ==
    [][\A r \in Reqs : GetStep(r) =>
          IF type[r] \in DOMAIN cache.itemsByType /\ clock - cache.lastFetch < CACHE_TTL
          THEN HitStep(r) ELSE MissStep(r)]_vars

\* C1 witness: one get was a hit and, with the key still present and the
\* stamp exactly TTL old, another get issued the load.
C1_Witness ==
    \E r, q \in Reqs :
        /\ WasHit(q)
        /\ pc[r] = "load"
        /\ type[r] \in DOMAIN cache.itemsByType
        /\ now[r] = clock
        /\ now[r] - cache.lastFetch = CACHE_TTL

\* C2 as claimed: a get answered as a hit never returns a pool whose own
\* load happened TTL or more before that get, and once TTL has elapsed since
\* a key's load the next get for that key invokes the loader.
C2_HitPoolYoungerThanTtl ==
    [][\A r \in Reqs : GetStep(r) =>
          /\ HitStep(r) => clock - loadStamp[type[r]] < CACHE_TTL
          /\ (loadStamp[type[r]] # NoTime /\ clock - loadStamp[type[r]] >= CACHE_TTL)
                => MissStep(r)]_vars

\* C2 as amended: TTL bounds the age of the one shared stamp, not of each
\* pool.  A get answered as a hit starts less than TTL after the start of
\* the get whose refresh, of whatever key, wrote the cache last; once TTL or
\* more has passed since then, the next get for any key invokes the loader.
C2_HitWithinTtlOfLastRefresh ==
    [][\A r \in Reqs : GetStep(r) =>
          /\ HitStep(r) => /\ lastKey # "none"
                           /\ clock - loadStamp[lastKey] < CACHE_TTL
          /\ (lastKey # "none" /\ clock - loadStamp[lastKey] >= CACHE_TTL)
                => MissStep(r)]_vars

\* C2 witness: a hit returned a pool loaded TTL or more before the get.
C2_Witness ==
    \E r \in Reqs :
        /\ WasHit(r)
        /\ clock - loadStamp[type[r]] >= CACHE_TTL
        /\ clock - loadStamp[lastKey] < CACHE_TTL

\* C3 as claimed: after a get for K completed through a successful load, any
\* later get for K that starts less than TTL after that load does not invoke
\* the loader, whatever other requests did in between.
C3_NoReloadWithinTtlOfOwnLoad ==
    [][\A r \in Reqs :
          (GetStep(r) /\ loadStamp[type[r]] # NoTime
                      /\ clock - loadStamp[type[r]] < CACHE_TTL)
             => HitStep(r)]_vars

ValidRecords(snap) ==
    LET kept == SelectSeq(snap, LAMBDA c : "embedding" \in DOMAIN c.val)
    IN  [i \in 1..Len(kept) |-> [id |-> kept[i].key, embedding |-> kept[i].val.embedding]]

\* C5: if the loader fails during a miss, the failure reaches the caller of
\* get (the handler answers its failure) and pools and lastFetch are what
\* they were before: nothing partial or poisoned is written.
C5_LoadFailureLeavesCacheUnchanged ==
    [][\A r \in Reqs : (pc[r] = "load" /\ pc'[r] = "idle") =>
          /\ cache' = cache
          /\ out' = [status |-> 500, body |-> "Internal server error",
                     calls |-> <<"verifyIdToken", "preferences", "load">>]]_vars

\* C5 witness: a load has just failed while the cache holds an entry.
C5_Witness ==
    /\ out.status = 500
    /\ out.calls = <<"verifyIdToken", "preferences", "load">>
    /\ cache.itemsByType # <<>>
    /\ \E k \in DOMAIN cache.itemsByType : cache.itemsByType[k] # <<>>

\* C6: a successful miss for K stores the freshly loaded pool as pools[K],
\* sets lastFetch to the now of that get and returns that pool; a hit for K
\* returns the sequence stored in pools[K] and changes neither pools nor
\* lastFetch.
C6_MissStoresAndReturnsHitReturnsStored ==
    [][\A r \in Reqs :
          /\ WriteStep(r) =>
                /\ type[r] \in DOMAIN cache'.itemsByType
                /\ cache'.itemsByType[type[r]] = ValidRecords(loaded'[r])
                /\ cache'.lastFetch = now[r]
                /\ items'[r] = ValidRecords(loaded'[r])
          /\ HitStep(r) =>
                /\ items'[r] = cache.itemsByType[type[r]]
                /\ cache' = cache]_vars

\* C6 witness: a miss replaced an older, different pool of its key, took
\* time, and returned what it stored.
C6_Witness ==
    \E r \in Reqs :
        /\ WasMiss(r)
        /\ lastKey = type[r]
        /\ items[r] = ValidRecords(loaded[r])
        /\ Len(items[r]) < Len(loaded[r])
        /\ cache.itemsByType[type[r]] = items[r]
        /\ cache.lastFetch < clock

\* C7: a refresh for K leaves every other key's entry unchanged: for J # K,
\* pools[J] after the write equals pools[J] before it, and no key present
\* before the write is absent after it.
C7_RefreshKeepsOtherKeys ==
    [][\A r \in Reqs : WriteStep(r) =>
          \A j \in DOMAIN cache.itemsByType :
              /\ j \in DOMAIN cache'.itemsByType
              /\ j # type[r] => cache'.itemsByType[j] = cache.itemsByType[j]]_vars

\* C7 witness: a refresh has been written while another key held a
\* non-empty pool, which is still there.
C7_Witness ==
    \E r \in Reqs : \E j \in Types \ {type[r]} :
        /\ WasMiss(r)
        /\ lastKey = type[r]
        /\ j \in DOMAIN cache.itemsByType
        /\ cache.itemsByType[j] # <<>>
        /\ cache.itemsByType[j] = loadPool[j]

\* C8: when two requests miss on different keys A and B concurrently and both
\* loads succeed, then after both have written pools holds A and B with the
\* pools each request loaded, whichever load completes first.
C8_ConcurrentMissesLoseNoEntry ==
    [][\A r \in Reqs :
          (WriteStep(r) /\ overtaken[r] /\ lastKey \in Types \ {type[r]}) =>
             /\ {lastKey, type[r]} \subseteq DOMAIN cache'.itemsByType
             /\ cache'.itemsByType[lastKey] = loadPool[lastKey]
             /\ cache'.itemsByType[type[r]] = ValidRecords(loaded'[r])]_vars

\* C8 witness: the second of two overlapping loads of different keys has
\* written, and both pools are stored.
C8_Witness ==
    \E r \in Reqs : \E b \in Types \ {type[r]} :
        /\ WasMiss(r)
        /\ overtaken[r]
        /\ lastKey = type[r]
        /\ items[r] # <<>>
        /\ cache.itemsByType[type[r]] = items[r]
        /\ b \in DOMAIN cache.itemsByType
        /\ cache.itemsByType[b] = loadPool[b]
        /\ loadStamp[b] > loadStamp[type[r]]

\* C9 as claimed: when two concurrent requests miss on the same key K, the
\* cache state after both have completed (pools[K] and lastFetch) is the
\* same for either order of completion.  When the second load writes, the
\* cache holds what the first wrote, which is what the other order would
\* leave in the end: the second write must change neither.
C9_SameKeyMissesConverge ==
    [][\A r \in Reqs :
          (WriteStep(r) /\ overtaken[r] /\ lastKey = type[r]) =>
             /\ cache'.itemsByType[type[r]] = cache.itemsByType[type[r]]
             /\ cache'.lastFetch = cache.lastFetch]_vars

\* C10 as claimed: a request whose category is not supported is rejected
\* with the invalid-category error before any external call has been made
\* for it (no identity check, preference read, load or embedding call).
C10_InvalidTypeMakesNoExternalCall ==
    /\ \A r \in Reqs : (pc[r] # "idle" /\ type[r] \notin {"pets", "articles"})
                          => calls[r] = <<>>
    /\ out.status = 400 => out.calls = <<>>

\* C10 as amended: a request with an unsupported category that passed the
\* method and bearer-header checks has its token verified first; it is then
\* rejected with the invalid-type error (or with 401 when the verification
\* fails), having made that one external call and no preference read, load
\* or embedding call, and the cache is unchanged by it.
C10_InvalidTypeRejectedAfterTokenCheck ==
    [][\A r \in Reqs :
          /\ (pc[r] = "verify" /\ pc'[r] # "verify"
                /\ type[r] \notin {"pets", "articles"}) =>
                /\ pc'[r] = "idle"
                /\ cache' = cache
                /\ \/ out' = [status |-> 400, body |-> "Invalid type",
                              calls |-> <<"verifyIdToken">>]
                   \/ out' = [status |-> 401, body |-> "Invalid or expired token",
                              calls |-> <<"verifyIdToken">>]
          /\ pc'[r] \in {"prefs", "load", "embed"} => type'[r] \in {"pets", "articles"}
          /\ DOMAIN cache'.itemsByType \subseteq {"pets", "articles"}]_vars

\* C10 witness: an unsupported category has just been answered 400, after
\* the token verification and nothing else.
C10_Witness ==
    /\ out.status = 400
    /\ out.calls = <<"verifyIdToken">>
    /\ cache.itemsByType # <<>>

\* ---------------------------------------------------------------------- C11
\* the ids of a pool, as a set
PoolIds(pool) == { pool[i].id : i \in 1..Len(pool) }

\* request r, past the type validation, is answered in this step
AnsweredStep(r) == pc[r] \in {"prefs", "load", "embed"} /\ pc'[r] = "idle"

\* C11: a request with a valid category is answered in the step that ends
\* it and in no other: the answer is either 200 with an ordered list of at
\* most five distinct ids of its pool, possible only once the preference
\* read, the load and the embedding have all succeeded, or the generic 500
\* "Internal server error" that carries no list; a step that ends no
\* request sends no response.
C11_OneResponseSuccessOrGenericFailure ==
    [][ /\ \A r \in Reqs :
              AnsweredStep(r) =>
                  /\ out'.status \in {200, 500}
                  /\ out'.calls = calls[r]
                  /\ out'.status = 200 =>
                        /\ pc[r] = "embed"
                        /\ Len(out'.body) <= TopK
                        /\ \A i, j \in 1..Len(out'.body) :
                              /\ out'.body[i] \in PoolIds(items[r])
                              /\ i # j => out'.body[i] # out'.body[j]
                  /\ out'.status = 500 =>
                        /\ out'.body = "Internal server error"
                        /\ DOMAIN out' = {"status", "body", "calls"}
                  /\ pc[r] \in {"prefs", "load"} => out'.status = 500
        /\ out' # out => \E r \in Reqs : pc'[r] = "idle" /\ calls'[r] = <<>>
        /\ \A r \in Reqs :
              pc[r] # "idle" /\ pc'[r] # "idle" /\ pc'[r] # pc[r] => out' = out
      ]_vars

\* a load has failed and its request got the generic 500
C11_Witness ==
    /\ out.status = 500
    /\ out.body = "Internal server error"
    /\ out.calls = <<"verifyIdToken", "preferences", "load">>

\* ---------------------------------------------------------- C12, C13, C14
\* the given query dimension: a record's embedding has as many components
\* as the query vector
SameDimension(x, qEmb) == Len(x.embedding) = Len(qEmb)

\* the records of the pool with the query's dimension, in pool order
ValidPool(pool, qEmb) == SelectSeq(pool, LAMBDA x : SameDimension(x, qEmb))

\* position of an id in a sequence of ids (0 when absent)
PosOf(ids, id) ==
    IF \E i \in 1..Len(ids) : ids[i] = id
    THEN CHOOSE i \in 1..Len(ids) : ids[i] = id
    ELSE 0

\* position of an id in a pool (keys of one snapshot are distinct)
IndexOf(pool, id) == CHOOSE i \in 1..Len(pool) : pool[i].id = id

\* the score the code computes for the record with this id
ScoreOf(pool, qEmb, id) == Cosine(qEmb, pool[IndexOf(pool, id)].embedding)

\* C12: the list of a 200 response has exactly min(5, number of valid
\* candidates) ids, a valid candidate being a record of the ranked pool
\* whose embedding has the query vector's dimension.
C12_ReturnsMinOfFiveAndValidCount ==
    out.status = 200 =>
        LET n == Len(ValidPool(out.ranked.pool, out.ranked.query))
        IN  Len(out.body) = IF n < TopK THEN n ELSE TopK

\* C13: a record whose embedding dimension differs from the query's is left
\* out of the ranking: its id is not in the list, and the ids of the other
\* records stand in the order the ranking of the pool without it gives.
C13_MismatchedDimensionExcluded ==
    out.status = 200 =>
        LET pool == out.ranked.pool
            q == out.ranked.query
            ref == TopIds(StableSortDesc(Scored(q, ValidPool(pool, q))))
        IN  /\ \A i \in 1..Len(pool) :
                  ~SameDimension(pool[i], q) =>
                      \A k \in 1..Len(out.body) : out.body[k] # pool[i].id
            /\ \A i, j \in 1..Len(out.body) :
                  (/\ i < j
                   /\ PosOf(ref, out.body[i]) > 0
                   /\ PosOf(ref, out.body[j]) > 0)
                  => PosOf(ref, out.body[i]) < PosOf(ref, out.body[j])

\* C14: the list of a 200 response is in non-increasing order of score, no
\* record left out scores higher than a returned one, and records with
\* equal scores keep their pool order (compared wherever both scores are
\* numbers).
C14_DescendingStableTopFive ==
    out.status = 200 =>
        LET pool == out.ranked.pool
            q == out.ranked.query
            Sc(id) == ScoreOf(pool, q, id)
            Num(id) == ~Sc(id).nan
            Tie(x, y) == ~ScoreGreater(Sc(x), Sc(y)) /\ ~ScoreGreater(Sc(y), Sc(x))
            Returned(id) == \E k \in 1..Len(out.body) : out.body[k] = id
        IN  /\ \A i, j \in 1..Len(out.body) :
                  (i < j /\ Num(out.body[i]) /\ Num(out.body[j])) =>
                      /\ ~ScoreGreater(Sc(out.body[j]), Sc(out.body[i]))
                      /\ Tie(out.body[i], out.body[j]) =>
                            IndexOf(pool, out.body[i]) < IndexOf(pool, out.body[j])
            /\ \A k \in 1..Len(out.body), y \in PoolIds(pool) :
                  (~Returned(y) /\ Num(out.body[k]) /\ Num(y)) =>
                      /\ ~ScoreGreater(Sc(y), Sc(out.body[k]))
                      /\ Tie(out.body[k], y) =>
                            IndexOf(pool, out.body[k]) < IndexOf(pool, y)

Count(cs, c) == Cardinality({ i \in 1..Len(cs) : cs[i] = c })

\* request r invokes the embedder in this step
EmbedderInvoked(r) ==
    Count(calls'[r], "embeddings") = 1 /\ Count(calls[r], "embeddings") = 0

\* C16: a request resolves its pool through the cache, then invokes the
\* embedder, then ranks.  The embedder is invoked at most once per request
\* and only in the step in which the pool was resolved, by a hit or by the
\* request's own successful load; the loader is invoked at most once; a 200
\* is sent only by a request that was waiting for the embedder; a request
\* whose load fails is answered without an embedder call.
C16_ResolveThenEmbedThenRank ==
    [][\A r \in Reqs :
          /\ Count(calls'[r], "load") <= 1
          /\ Count(calls'[r], "embeddings") <= 1
          /\ EmbedderInvoked(r) =>
                /\ pc'[r] = "embed"
                /\ calls'[r] = Append(calls[r], "embeddings")
                /\ \/ /\ HitStep(r)
                      /\ IsFresh(cache, type[r], clock)
                      /\ items'[r] = cache.itemsByType[type[r]]
                   \/ /\ WriteStep(r)
                      /\ calls[r][Len(calls[r])] = "load"
                      /\ items'[r] = ValidRecords(loaded'[r])
                      /\ type[r] \in DOMAIN cache'.itemsByType
                      /\ cache'.itemsByType[type[r]] = items'[r]
                      /\ cache'.lastFetch = now[r]
          /\ (pc[r] = "load" /\ ~WriteStep(r) /\ pc'[r] # "load") =>
                /\ pc'[r] = "idle"
                /\ out'.status = 500
                /\ out'.calls = calls[r]
                /\ Count(out'.calls, "embeddings") = 0
          /\ (AnsweredStep(r) /\ out'.status = 200) =>
                /\ pc[r] = "embed"
                /\ out'.ranked.pool = items[r]
                /\ Count(out'.calls, "embeddings") = 1
                /\ Count(out'.calls, "load") <= 1
                /\ out'.calls[Len(out'.calls)] = "embeddings"]_vars

\* a load failed at a time when the cache was stale but filled, and its
\* request was answered 500 with no embedder call
C16_Witness ==
    /\ out.status = 500
    /\ out.calls = <<"verifyIdToken", "preferences", "load">>
    /\ DOMAIN cache.itemsByType = Types
    /\ \E r \in Reqs : WasMiss(r)

\* ---------------------------------------------------------------------- C17
\* C17: lastFetch never decreases from one state to the next, also when
\* concurrent misses complete in another order than they started.
C17_LastFetchNeverDecreases ==
    [][cache'.lastFetch >= cache.lastFetch]_vars

\* ---------------------------------------------------------------------- C18
\* C18: the pool a request ranks is the pool its own fetchItems call
\* returned (the stored pool on a hit, the records it loaded on a miss):
\* while the request waits for the embedder its pool does not change,
\* whatever other requests write to the cache, and the list it answers with
\* is a ranking of that pool.
C18_RanksThePoolItsGetReturned ==
    [][\A r \in Reqs :
          /\ HitStep(r) => items'[r] = cache.itemsByType[type[r]]
          /\ WriteStep(r) => items'[r] = ValidRecords(loaded'[r])
          /\ (pc[r] = "embed" /\ pc'[r] = "embed") => items'[r] = items[r]
          /\ (pc[r] = "embed" /\ pc'[r] = "idle" /\ out'.status = 200) =>
                /\ out'.ranked.pool = items[r]
                /\ out'.body \in Recommendations(out'.ranked.query, items[r])
                /\ Len(out'.body) = Len(items[r])]_vars

\* a request waits for the embedder with a pool of two records while the
\* cache entry of its type has been replaced by another request's refresh
C18_Witness ==
    \E r \in Reqs :
        /\ pc[r] = "embed"
        /\ Len(items[r]) = 2
        /\ cache.itemsByType[type[r]] = <<>>
        /\ lastKey = type[r]

\* ---------------------------------------------------------------------- C19
\* C19: in every reachable state the keys of pools are among "pets" and
\* "articles", and no step removes a key that is present.
C19_KeysValidAndNeverRemoved ==
    [][ /\ DOMAIN cache.itemsByType \subseteq Types
        /\ DOMAIN cache'.itemsByType \subseteq Types
        /\ DOMAIN cache.itemsByType \subseteq DOMAIN cache'.itemsByType ]_vars

\* both keys are present, the stamp is a full TTL old, and a request for
\* another category has just been rejected
C19_Witness ==
    /\ DOMAIN cache.itemsByType = Types
    /\ clock - cache.lastFetch >= CACHE_TTL
    /\ out.status = 400
====
